---- MODULE Spec2Model ----
(***************************************************************************)
(* Model of the chunker (chunk_text) and the relevance ranker              *)
(* (find_relevant_chunks) of chunking.py, of the document store of         *)
(* file_upload.py as app.py drives it, and of the retry of                 *)
(* get_answer_from_chunks in qa.py.  Strings are sequences of              *)
(* one-character strings, so that split, strip, slicing and substring      *)
(* search are computed as Python computes them.                            *)
(***************************************************************************)
EXTENDS Integers, Sequences, FiniteSets, TLC

VARIABLES
  text,           \* chunk_text: argument text
  doc_id,         \* chunk_text: argument doc_id
  chunk_size,     \* chunk_text: argument chunk_size
  overlap,        \* chunk_text: argument overlap
  paragraphs,     \* chunk_text: text.split('\n\n')
  para_i,         \* chunk_text: position of the for loop in paragraphs
  current_chunk,  \* chunk_text: the accumulating buffer
  chunk_index,    \* chunk_text: emission counter
  chunks,         \* chunk_text: the list being returned
  pc,             \* chunk_text: "idle" | "call" | "loop" | "done"
  query,          \* find_relevant_chunks: argument query
  rank_chunks,    \* find_relevant_chunks: argument chunks
  top_k,          \* find_relevant_chunks: argument top_k
  relevant,       \* find_relevant_chunks: the returned list
  rpc,            \* find_relevant_chunks: "idle" | "call" | "done"
  documents,      \* FileManager: the rows of table documents, oldest first
  uuid_count,     \* main: how many uuid4 values were drawn
  op,             \* main: what the last run of the script did
  user_id,        \* main: user_id of the session of the last run
  user_role,      \* main: user_role of the session of the last run
  listed,         \* get_documents_by_filters: the returned list
  deleted,        \* delete_document: doc_id, user_role and return value
  produced,       \* history: what chunk_text returned at each upload
  attempt,        \* get_answer_from_chunks: depth of the call in progress
  qa_chunks,      \* get_answer_from_chunks: argument chunks of that call
  answers,        \* get_answer_from_chunks: kind of each answer received
  qa_result,      \* get_answer_from_chunks: the returned dict, or "none"
  qpc             \* get_answer_from_chunks: "idle" | "call" | "done"

chunkVars == <<text, doc_id, chunk_size, overlap, paragraphs, para_i,
               current_chunk, chunk_index, chunks, pc>>
rankVars == <<query, rank_chunks, top_k, relevant, rpc>>
storeVars == <<documents, uuid_count, op, user_id, user_role, listed, deleted,
               produced>>
qaVars == <<attempt, qa_chunks, answers, qa_result, qpc>>
appVars == <<storeVars, qaVars>>
vars == <<chunkVars, rankVars, appVars>>

----------------------------------------------------------------------------
(* Bounds of the explored inputs                                           *)

MaxParas == 3        \* pieces joined by a blank line to form a text
MaxChunkSize == 3    \* chunk_size ranges over 0..MaxChunkSize
MaxOverlap == 2      \* overlap ranges over -1..MaxOverlap

----------------------------------------------------------------------------
(* Python string primitives                                                *)

Min(a, b) == IF a < b THEN a ELSE b
Max(a, b) == IF a > b THEN a ELSE b

WhiteSpace == {" ", "\n", "\t"}

\* str.strip(): drop leading and trailing whitespace
Strip(s) ==
  IF \A i \in 1..Len(s) : s[i] \in WhiteSpace THEN <<>>
  ELSE SubSeq(s,
              CHOOSE i \in 1..Len(s) :
                s[i] \notin WhiteSpace /\ \A j \in 1..(i - 1) : s[j] \in WhiteSpace,
              CHOOSE i \in 1..Len(s) :
                s[i] \notin WhiteSpace
                /\ \A j \in (i + 1)..Len(s) : s[j] \in WhiteSpace)

\* s[start:] for any integer start
SliceFrom(s, start) ==
  LET b == IF start < 0 THEN Max(Len(s) + start, 0) ELSE Min(start, Len(s))
  IN SubSeq(s, b + 1, Len(s))

\* s[:stop] for stop >= 0
SliceTo(s, stop) == SubSeq(s, 1, Min(stop, Len(s)))

\* the positions at which sub occurs in s
Occurrences(s, sub) ==
  {i \in 1..(Len(s) - Len(sub) + 1) : SubSeq(s, i, i + Len(sub) - 1) = sub}

\* sub in s
Contains(s, sub) ==
  \/ sub = <<>>
  \/ \E i \in 1..(Len(s) - Len(sub) + 1) :
       s[i] = sub[1] /\ SubSeq(s, i, i + Len(sub) - 1) = sub

\* s.split(sep), sep non-empty: leftmost non-overlapping separators
RECURSIVE SplitOn(_, _)
SplitOn(s, sep) ==
  LET occ == Occurrences(s, sep)
  IN IF occ = {} THEN <<s>>
     ELSE LET i == CHOOSE k \in occ : \A j \in occ : k <= j
          IN <<SubSeq(s, 1, i - 1)>> \o
             SplitOn(SubSeq(s, i + Len(sep), Len(s)), sep)

\* sep.join(parts)
RECURSIVE Join(_, _)
Join(parts, sep) ==
  IF parts = <<>> THEN <<>>
  ELSE IF Len(parts) = 1 THEN parts[1]
  ELSE parts[1] \o sep \o Join(Tail(parts), sep)

ParaSep == <<"\n", "\n">>

PreviewLen == 100

----------------------------------------------------------------------------
(* chunk_text                                                              *)

\* lines 24-30 and 40-46 with the preview cut from the trimmed text
MakeChunk_PreviewOfText(did, idx, buf) ==
  [chunk_id    |-> did \o "_chunk_" \o ToString(idx),
   doc_id      |-> did,
   text        |-> Strip(buf),
   chunk_index |-> idx,
   preview     |-> SliceTo(Strip(buf), PreviewLen)]

\* the dict appended at lines 24-30 and 40-46
MakeChunk(did, idx, buf) ==
  [chunk_id    |-> did \o "_chunk_" \o ToString(idx),
   doc_id      |-> did,
   text        |-> Strip(buf),
   chunk_index |-> idx,
   preview     |-> Strip(SliceTo(buf, PreviewLen))]

\* line 34 with the new paragraph left out of the next buffer
NextBuffer_DropPara(buf, ov, para) == SliceFrom(buf, 0 - ov) \o ParaSep

\* line 34: the buffer that follows a closed buffer
NextBuffer(buf, ov, para) == SliceFrom(buf, 0 - ov) \o ParaSep \o para

\* line 23 without the "and current_chunk" guard
ShouldClose_NoGuard(buf, para, size) == Len(buf) + Len(para) > size

\* line 23: the condition that closes the current chunk
ShouldClose(buf, para, size) == Len(buf) + Len(para) > size /\ buf # <<>>

\* raw paragraphs the explored texts are made of (none holds a blank line)
Pieces ==
  { <<>>, <<" ">>, <<"a">>, <<"b">>, <<"a", "b">>, <<"a", " ", "b">>,
    <<" ", "a">>, <<"b", "\n">> }

PieceLists == UNION {[1..n -> Pieces] : n \in 1..MaxParas}

Texts == {Join(pl, ParaSep) : pl \in PieceLists}

DocIds == {"d1", "d2"}

\* no document stored, no run of the script yet
StoreIdle ==
  /\ documents = <<>>
  /\ uuid_count = 0
  /\ op = "idle"
  /\ user_id = "guest"
  /\ user_role = "guest"
  /\ listed = <<>>
  /\ deleted = <<>>
  /\ produced = <<>>

\* no call of get_answer_from_chunks
QaIdle ==
  /\ attempt = 0
  /\ qa_chunks = <<>>
  /\ answers = <<>>
  /\ qa_result = "none"
  /\ qpc = "idle"

AppIdle == StoreIdle /\ QaIdle

RankIdle ==
  /\ query = <<>>
  /\ rank_chunks = <<>>
  /\ top_k = 0
  /\ relevant = <<>>
  /\ rpc = "idle"

ChunkInit ==
  /\ text \in Texts
  /\ doc_id \in DocIds
  /\ chunk_size \in 0..MaxChunkSize
  /\ overlap \in (0 - 1)..MaxOverlap
  /\ paragraphs = <<>>
  /\ para_i = 1
  /\ current_chunk = <<>>
  /\ chunk_index = 0
  /\ chunks = <<>>
  /\ pc = "call"
  /\ RankIdle
  /\ AppIdle

\* lines 8-9: empty or whitespace-only text returns []
ChunkEmpty ==
  /\ pc = "call"
  /\ (text = <<>> \/ Len(Strip(text)) = 0)
  /\ pc' = "done"
  /\ UNCHANGED <<text, doc_id, chunk_size, overlap, paragraphs, para_i,
                 current_chunk, chunk_index, chunks>>
  /\ UNCHANGED <<rankVars, appVars>>

\* lines 12-15
ChunkSplit ==
  /\ pc = "call"
  /\ ~(text = <<>> \/ Len(Strip(text)) = 0)
  /\ paragraphs' = SplitOn(text, ParaSep)
  /\ para_i' = 1
  /\ chunks' = <<>>
  /\ chunk_index' = 0
  /\ current_chunk' = <<>>
  /\ pc' = "loop"
  /\ UNCHANGED <<text, doc_id, chunk_size, overlap>>
  /\ UNCHANGED <<rankVars, appVars>>

\* lines 18-20 with a skip that does not move on to the next paragraph
ChunkSkip_NoAdvance ==
  /\ pc = "loop"
  /\ para_i <= Len(paragraphs)
  /\ Strip(paragraphs[para_i]) = <<>>
  /\ para_i' = para_i
  /\ UNCHANGED <<text, doc_id, chunk_size, overlap, paragraphs,
                 current_chunk, chunk_index, chunks, pc>>
  /\ UNCHANGED <<rankVars, appVars>>

\* lines 18-20: a paragraph that is empty after trimming is skipped
ChunkSkip ==
  /\ pc = "loop"
  /\ para_i <= Len(paragraphs)
  /\ Strip(paragraphs[para_i]) = <<>>
  /\ para_i' = para_i + 1
  /\ UNCHANGED <<text, doc_id, chunk_size, overlap, paragraphs,
                 current_chunk, chunk_index, chunks, pc>>
  /\ UNCHANGED <<rankVars, appVars>>

\* lines 23-34 without the increment of line 31
ChunkClose_NoIncrement ==
  /\ pc = "loop"
  /\ para_i <= Len(paragraphs)
  /\ LET para == Strip(paragraphs[para_i])
     IN /\ para # <<>>
        /\ ShouldClose(current_chunk, para, chunk_size)
        /\ chunks' = Append(chunks, MakeChunk(doc_id, chunk_index, current_chunk))
        /\ chunk_index' = chunk_index
        /\ current_chunk' = NextBuffer(current_chunk, overlap, para)
  /\ para_i' = para_i + 1
  /\ UNCHANGED <<text, doc_id, chunk_size, overlap, paragraphs, pc>>
  /\ UNCHANGED <<rankVars, appVars>>

\* lines 23-34: close the current chunk and start the next with the overlap
ChunkClose ==
  /\ pc = "loop"
  /\ para_i <= Len(paragraphs)
  /\ LET para == Strip(paragraphs[para_i])
     IN /\ para # <<>>
        /\ ShouldClose(current_chunk, para, chunk_size)
        /\ chunks' = Append(chunks, MakeChunk(doc_id, chunk_index, current_chunk))
        /\ chunk_index' = chunk_index + 1
        /\ current_chunk' = NextBuffer(current_chunk, overlap, para)
  /\ para_i' = para_i + 1
  /\ UNCHANGED <<text, doc_id, chunk_size, overlap, paragraphs, pc>>
  /\ UNCHANGED <<rankVars, appVars>>

\* line 36: append the paragraph to the buffer
ChunkAppend ==
  /\ pc = "loop"
  /\ para_i <= Len(paragraphs)
  /\ LET para == Strip(paragraphs[para_i])
     IN /\ para # <<>>
        /\ ~ShouldClose(current_chunk, para, chunk_size)
        /\ current_chunk' = IF current_chunk # <<>>
                            THEN current_chunk \o ParaSep \o para
                            ELSE para
  /\ para_i' = para_i + 1
  /\ UNCHANGED <<text, doc_id, chunk_size, overlap, paragraphs,
                 chunk_index, chunks, pc>>
  /\ UNCHANGED <<rankVars, appVars>>

\* lines 38-48 without the final append of lines 39-46
ChunkFinal_NoAppend ==
  /\ pc = "loop"
  /\ para_i > Len(paragraphs)
  /\ chunks' = chunks
  /\ pc' = "done"
  /\ UNCHANGED <<text, doc_id, chunk_size, overlap, paragraphs, para_i,
                 current_chunk, chunk_index>>
  /\ UNCHANGED <<rankVars, appVars>>

\* lines 38-48: the final chunk and the return
ChunkFinal ==
  /\ pc = "loop"
  /\ para_i > Len(paragraphs)
  /\ chunks' = IF Strip(current_chunk) # <<>>
               THEN Append(chunks, MakeChunk(doc_id, chunk_index, current_chunk))
               ELSE chunks
  /\ pc' = "done"
  /\ UNCHANGED <<text, doc_id, chunk_size, overlap, paragraphs, para_i,
                 current_chunk, chunk_index>>
  /\ UNCHANGED <<rankVars, appVars>>

\* a paragraph one character longer than a preview, with a space as its
\* PreviewLen-th character
LongPara == [i \in 1..(PreviewLen + 1) |-> IF i = PreviewLen THEN " " ELSE "a"]

\* raw paragraphs of the texts explored for the preview
PreviewPieces == { <<>>, <<"a", " ", "b">>, LongPara }

PreviewTexts ==
  {Join(pl, ParaSep) : pl \in UNION {[1..n -> PreviewPieces] : n \in 1..MaxParas}}

PreviewInit ==
  /\ text \in PreviewTexts
  /\ doc_id = "d1"
  /\ chunk_size \in 0..MaxChunkSize
  /\ overlap \in (0 - 1)..MaxOverlap
  /\ paragraphs = <<>>
  /\ para_i = 1
  /\ current_chunk = <<>>
  /\ chunk_index = 0
  /\ chunks = <<>>
  /\ pc = "call"
  /\ RankIdle
  /\ AppIdle

\* raw paragraphs of the texts explored for termination
FairPieces == { <<" ">>, <<"a">>, <<"a", " ", "b">> }

FairTexts ==
  {Join(pl, ParaSep) : pl \in UNION {[1..n -> FairPieces] : n \in 1..MaxParas}}

FairInit ==
  /\ text \in FairTexts
  /\ doc_id = "d1"
  /\ chunk_size \in 0..MaxChunkSize
  /\ overlap \in (0 - 1)..MaxOverlap
  /\ paragraphs = <<>>
  /\ para_i = 1
  /\ current_chunk = <<>>
  /\ chunk_index = 0
  /\ chunks = <<>>
  /\ pc = "call"
  /\ RankIdle
  /\ AppIdle

ChunkNext ==
  \/ ChunkEmpty
  \/ ChunkSplit
  \/ ChunkSkip
  \/ ChunkClose
  \/ ChunkAppend
  \/ ChunkFinal

ChunkSpec == ChunkInit /\ [][ChunkNext]_vars

\* a call of chunk_text is a sequential run: a step that can be taken is taken
ChunkFairSpec == FairInit /\ [][ChunkNext]_vars /\ WF_vars(ChunkNext)

\* chunk_text on texts with paragraphs longer than a preview
PreviewSpec == PreviewInit /\ [][ChunkNext]_vars

----------------------------------------------------------------------------
(* find_relevant_chunks                                                    *)

MaxChunks == 4       \* rank_chunks holds 0..MaxChunks chunks
MaxTopK == 3         \* top_k ranges over 0..MaxTopK
MaxRepeatLen == 2    \* longer collections hold no text twice

UpperCase == <<"A", "B", "C", "D", "E", "F", "G", "H", "I", "J", "K", "L", "M",
               "N", "O", "P", "Q", "R", "S", "T", "U", "V", "W", "X", "Y", "Z">>
LowerCase == <<"a", "b", "c", "d", "e", "f", "g", "h", "i", "j", "k", "l", "m",
               "n", "o", "p", "q", "r", "s", "t", "u", "v", "w", "x", "y", "z">>

\* str.lower()
UpperCaseLetters == {UpperCase[k] : k \in 1..26}

LowerChar(c) ==
  IF c \in UpperCaseLetters
  THEN LowerCase[CHOOSE k \in 1..26 : UpperCase[k] = c]
  ELSE c

Lower(s) == SubSeq([i \in 1..Len(s) |-> LowerChar(s[i])], 1, Len(s))

\* str.split(): split on runs of whitespace, no empty strings
RECURSIVE SplitWs(_)
SplitWs(s) ==
  LET word == {i \in 1..Len(s) : s[i] \notin WhiteSpace}
  IN IF word = {} THEN <<>>
     ELSE LET b == CHOOSE i \in word : \A j \in word : i <= j
              gap == {i \in b..Len(s) : s[i] \in WhiteSpace}
              e == IF gap = {} THEN Len(s) + 1
                   ELSE CHOOSE i \in gap : \A j \in gap : i <= j
          IN <<SubSeq(s, b, e - 1)>> \o SplitWs(SubSeq(s, e, Len(s)))

Range(f) == {f[i] : i \in DOMAIN f}

\* lines 61-66: the synonym table, in dict order
variations ==
  << <<<<"q", "a", "t", "a", "l">>,
       <<<<"q", "a", "t", "a", "l">>,
         <<"U+0642", "U+062A", "U+0644">>,
         <<"k", "i", "l", "l", "i", "n", "g">>,
         <<"m", "u", "r", "d", "e", "r">>>>>>,
     <<<<"a", "m", "a", "d">>,
       <<<<"a", "m", "a", "d">>,
         <<"a", "m", "d">>,
         <<"U+0639", "U+0645", "U+062F">>,
         <<"i", "n", "t", "e", "n", "t", "i", "o", "n", "a", "l">>>>>>,
     <<<<"s", "h", "i", "b", "h">>,
       <<<<"s", "h", "i", "b", "h">>,
         <<"U+0634", "U+0628", "U+0647">>,
         <<"n", "e", "a", "r">>,
         <<"m", "a", "n", "s", "l", "a", "u", "g", "h", "t", "e", "r">>>>>>,
     <<<<"d", "i", "a", "t">>,
       <<<<"d", "i", "a", "t">>,
         <<"d", "i", "y", "a", "t">>,
         <<"U+062F", "U+06CC", "U+062A">>,
         <<"b", "l", "o", "o", "d">>,
         <<"m", "o", "n", "e", "y">>>>>> >>

\* lines 71-73 appending only the key of the entry instead of its variants
RECURSIVE VariantsOf_KeyOnly(_, _)
VariantsOf_KeyOnly(term, table) ==
  IF table = <<>> THEN <<>>
  ELSE (IF term \in Range(Head(table)[2]) THEN <<Head(table)[1]>> ELSE <<>>)
       \o VariantsOf_KeyOnly(term, Tail(table))

\* lines 71-73 expanding a term only when it is the key of an entry
RECURSIVE VariantsOf_KeyMatch(_, _)
VariantsOf_KeyMatch(term, table) ==
  IF table = <<>> THEN <<>>
  ELSE (IF term = Head(table)[1] THEN Head(table)[2] ELSE <<>>)
       \o VariantsOf_KeyMatch(term, Tail(table))

\* lines 71-73: the variant lists that hold the term, concatenated
RECURSIVE VariantsOf(_, _)
VariantsOf(term, table) ==
  IF table = <<>> THEN <<>>
  ELSE (IF term \in Range(Head(table)[2]) THEN Head(table)[2] ELSE <<>>)
       \o VariantsOf(term, Tail(table))

\* lines 68-73
RECURSIVE ExpandTerms(_)
ExpandTerms(query_terms) ==
  IF query_terms = <<>> THEN <<>>
  ELSE <<Head(query_terms)>> \o VariantsOf(Head(query_terms), variations)
       \o ExpandTerms(Tail(query_terms))

\* lines 54-73
expanded_terms(q) == ExpandTerms(SplitWs(Lower(q)))

W_section == <<"s", "e", "c", "t", "i", "o", "n">>
W_chapter == <<"c", "h", "a", "p", "t", "e", "r">>

\* lines 82-85: 10 for every adjacent pair of expanded terms found as a phrase
PhraseScore(expanded, chunk_text_lower) ==
  10 * Cardinality({i \in 1..(Len(expanded) - 1) :
         Contains(chunk_text_lower, expanded[i] \o <<" ">> \o expanded[i + 1])})

\* lines 88-90 without set(): 1 for every position of the expanded list whose
\* term is found
TermScore_PerPosition(expanded, chunk_text_lower) ==
  Cardinality({k \in 1..Len(expanded) : Contains(chunk_text_lower, expanded[k])})

\* lines 88-90: 1 for every distinct expanded term found
TermScore(expanded, chunk_text_lower) ==
  Cardinality({term \in Range(expanded) : Contains(chunk_text_lower, term)})

\* lines 93-94 adding 2 for each of the two words
HeadingScore_PerWord(chunk_text_lower) ==
  (IF Contains(chunk_text_lower, W_section) THEN 2 ELSE 0)
  + (IF Contains(chunk_text_lower, W_chapter) THEN 2 ELSE 0)

\* lines 93-94
HeadingScore(chunk_text_lower) ==
  IF Contains(chunk_text_lower, W_section) \/ Contains(chunk_text_lower, W_chapter)
  THEN 2 ELSE 0

\* lines 78-94: the score of one chunk
Score(expanded, chunk) ==
  LET chunk_text_lower == Lower(chunk.text)
  IN PhraseScore(expanded, chunk_text_lower)
     + TermScore(expanded, chunk_text_lower)
     + HeadingScore(chunk_text_lower)

\* lines 76-97 keeping every chunk (score >= 0 instead of score > 0)
RECURSIVE ScoredChunks_KeepZero(_, _)
ScoredChunks_KeepZero(expanded, cs) ==
  IF cs = <<>> THEN <<>>
  ELSE << <<Head(cs), Score(expanded, Head(cs))>> >>
       \o ScoredChunks_KeepZero(expanded, Tail(cs))

\* lines 76-97: the (chunk, score) pairs with score > 0, in input order
RECURSIVE ScoredChunks(_, _)
ScoredChunks(expanded, cs) ==
  IF cs = <<>> THEN <<>>
  ELSE LET score == Score(expanded, Head(cs))
       IN (IF score > 0 THEN << <<Head(cs), score>> >> ELSE <<>>)
          \o ScoredChunks(expanded, Tail(cs))

\* line 100 with an unstable sort: equal scores come out in reverse order
RECURSIVE SortByScore_Unstable(_)
SortByScore_Unstable(scored) ==
  IF scored = <<>> THEN <<>>
  ELSE LET n == Len(scored)
           x == scored[n]
           sorted == SortByScore_Unstable(SubSeq(scored, 1, n - 1))
           k == Cardinality({i \in 1..(n - 1) : sorted[i][2] > x[2]})
       IN SubSeq(sorted, 1, k) \o <<x>> \o SubSeq(sorted, k + 1, n - 1)

\* line 100: list.sort(key=score, reverse=True), a stable sort
RECURSIVE SortByScore(_)
SortByScore(scored) ==
  IF scored = <<>> THEN <<>>
  ELSE LET n == Len(scored)
           x == scored[n]
           sorted == SortByScore(SubSeq(scored, 1, n - 1))
           k == Cardinality({i \in 1..(n - 1) : sorted[i][2] >= x[2]})
       IN SubSeq(sorted, 1, k) \o <<x>> \o SubSeq(sorted, k + 1, n - 1)

FallbackCount == 3

\* lines 103-107 with the fallback cut at top_k instead of 3
SelectChunks_FallbackTopK(scored_chunks, cs, k) ==
  IF scored_chunks # <<>>
  THEN [i \in 1..Min(k, Len(scored_chunks)) |-> scored_chunks[i][1]]
  ELSE SliceTo(cs, k)

\* lines 103-107 without the fallback of line 107
SelectChunks_NoFallback(scored_chunks, cs, k) ==
  [i \in 1..Min(k, Len(scored_chunks)) |-> scored_chunks[i][1]]

\* lines 103-107: what is returned from the sorted pairs
SelectChunks(scored_chunks, cs, k) ==
  IF scored_chunks # <<>>
  THEN [i \in 1..Min(k, Len(scored_chunks)) |-> scored_chunks[i][1]]
  ELSE SliceTo(cs, FallbackCount)

\* lines 50-107
find_relevant_chunks(q, cs, k) ==
  SelectChunks(SortByScore(ScoredChunks(expanded_terms(q), cs)), cs, k)

\* file_upload.py get_all_chunks: a stored chunk with its document's metadata
WithMeta(chunk, filename, country, doc_type) ==
  [chunk_id    |-> chunk.chunk_id,
   doc_id      |-> chunk.doc_id,
   text        |-> chunk.text,
   chunk_index |-> chunk.chunk_index,
   preview     |-> chunk.preview,
   filename    |-> filename,
   country     |-> country,
   doc_type    |-> doc_type]

Q_empty == <<>>
Q_nomatch == <<"z", "z", "z">>
Q_qatal_amad == <<"q", "a", "t", "a", "l", " ", "a", "m", "a", "d">>
Q_qatal_e_amad == <<"q", "a", "t", "a", "l", " ", "e", " ", "a", "m", "a", "d">>
Q_Murder == <<"M", "u", "r", "d", "e", "r">>
Q_a_a == <<"a", " ", "a">>

Queries == {Q_empty, Q_nomatch, Q_qatal_amad, Q_qatal_e_amad, Q_Murder, Q_a_a}

T_phrase == <<"q", "a", "t", "a", "l", " ", "a", "m", "a", "d">>
T_apart == <<"q", "a", "t", "a", "l", " ", "x", " ", "a", "m", "a", "d">>
T_script == <<"U+0642", "U+062A", "U+0644">>
T_plain == <<"x">>
T_heading == <<"S", "e", "c", "t", "i", "o", "n">>

ChunkTexts == {T_phrase, T_apart, T_script, T_plain, T_heading}

\* no text occurs twice
Distinct(tl) == \A i, j \in 1..Len(tl) : tl[i] = tl[j] => i = j

\* the chunk texts of the collections ranked: up to MaxChunks texts, a text
\* repeated only in the collections of at most MaxRepeatLen texts
TextLists ==
  {tl \in UNION {[1..n -> ChunkTexts] : n \in 0..MaxChunks} :
     Len(tl) <= MaxRepeatLen \/ Distinct(tl)}

\* the chunks of one document holding the given texts, as get_all_chunks
\* hands them to the ranker
EnrichedChunks(tl) ==
  [i \in 1..Len(tl) |->
     WithMeta(MakeChunk("d1", i - 1, tl[i]), "law.txt", "Pakistan", "Act")]

ChunkIdle ==
  /\ text = <<>>
  /\ doc_id = "d1"
  /\ chunk_size = 0
  /\ overlap = 0
  /\ paragraphs = <<>>
  /\ para_i = 1
  /\ current_chunk = <<>>
  /\ chunk_index = 0
  /\ chunks = <<>>
  /\ pc = "idle"

RankInit ==
  /\ query \in Queries
  /\ rank_chunks \in {EnrichedChunks(tl) : tl \in TextLists}
  /\ top_k \in 0..MaxTopK
  /\ relevant = <<>>
  /\ rpc = "call"
  /\ ChunkIdle
  /\ AppIdle

\* one call that also sorts the caller's list in place by score
FindRelevant_SortsInput ==
  /\ rpc = "call"
  /\ relevant' = find_relevant_chunks(query, rank_chunks, top_k)
  /\ rank_chunks' =
       LET sorted == SortByScore(ScoredChunks_KeepZero(expanded_terms(query),
                                                       rank_chunks))
       IN [i \in 1..Len(sorted) |-> sorted[i][1]]
  /\ rpc' = "done"
  /\ UNCHANGED <<query, top_k>>
  /\ UNCHANGED <<chunkVars, appVars>>

\* one call of find_relevant_chunks
FindRelevant ==
  /\ rpc = "call"
  /\ relevant' = find_relevant_chunks(query, rank_chunks, top_k)
  /\ rpc' = "done"
  /\ UNCHANGED <<query, rank_chunks, top_k>>
  /\ UNCHANGED <<chunkVars, appVars>>

T_chapter == <<"c", "h", "a", "p", "t", "e", "r">>
T_both == <<"C", "h", "a", "p", "t", "e", "r", " ", "1", " ",
            "s", "e", "c", "t", "i", "o", "n", " ", "2">>

\* chunk texts with and without the heading words
HeadingTexts == {T_heading, T_chapter, T_both, T_plain, T_phrase}

HeadingTextLists == UNION {[1..n -> HeadingTexts] : n \in 0..MaxRepeatLen}

\* calls of find_relevant_chunks on collections that hold headings
HeadingInit ==
  /\ query \in {Q_empty, Q_nomatch, Q_qatal_amad}
  /\ rank_chunks \in {EnrichedChunks(tl) : tl \in HeadingTextLists}
  /\ top_k \in 0..MaxTopK
  /\ relevant = <<>>
  /\ rpc = "call"
  /\ ChunkIdle
  /\ AppIdle

RankNext == FindRelevant

RankSpec == RankInit /\ [][RankNext]_vars

HeadingSpec == HeadingInit /\ [][RankNext]_vars

Q_qatal_e_amd == <<"q", "a", "t", "a", "l", " ", "e", " ", "a", "m", "d">>
Q_qatal_e_amd_hyphen == <<"q", "a", "t", "a", "l", "-", "e", "-", "a", "m", "d">>

\* calls of find_relevant_chunks with the two spellings of one query
SpellingInit ==
  /\ query \in {Q_qatal_e_amd, Q_qatal_e_amd_hyphen}
  /\ rank_chunks \in {EnrichedChunks(tl) : tl \in TextLists}
  /\ top_k \in 0..MaxTopK
  /\ relevant = <<>>
  /\ rpc = "call"
  /\ ChunkIdle
  /\ AppIdle

SpellingSpec == SpellingInit /\ [][RankNext]_vars

----------------------------------------------------------------------------
(* chunk_text and find_relevant_chunks invoked concurrently                *)

\* lines 17-48 as a function of the paragraphs left, the buffer and the
\* chunks emitted so far
RECURSIVE ChunkLoop(_, _, _, _, _, _)
ChunkLoop(paras, buf, out, did, size, ov) ==
  IF paras = <<>>
  THEN IF Strip(buf) # <<>> THEN Append(out, MakeChunk(did, Len(out), buf))
       ELSE out
  ELSE LET para == Strip(Head(paras))
       IN IF para = <<>> THEN ChunkLoop(Tail(paras), buf, out, did, size, ov)
          ELSE IF ShouldClose(buf, para, size)
          THEN ChunkLoop(Tail(paras), NextBuffer(buf, ov, para),
                         Append(out, MakeChunk(did, Len(out), buf)),
                         did, size, ov)
          ELSE ChunkLoop(Tail(paras),
                         IF buf # <<>> THEN buf \o ParaSep \o para ELSE para,
                         out, did, size, ov)

\* lines 4-48: what one call of chunk_text returns
chunk_text(t, did, size, ov) ==
  IF t = <<>> \/ Len(Strip(t)) = 0 THEN <<>>
  ELSE ChunkLoop(SplitOn(t, ParaSep), <<>>, <<>>, did, size, ov)

ConcPieces == { <<>>, <<"a">> }

ConcTexts ==
  {Join(pl, ParaSep) : pl \in UNION {[1..n -> ConcPieces] : n \in 1..MaxParas}}

ConcChunkTexts == {T_phrase, T_script, T_plain}

ConcTextLists == UNION {[1..n -> ConcChunkTexts] : n \in 0..2}

\* one invocation of each function, both about to start
ConcInit ==
  /\ text \in ConcTexts
  /\ doc_id = "d1"
  /\ chunk_size \in {0, MaxChunkSize}
  /\ overlap = 1
  /\ paragraphs = <<>>
  /\ para_i = 1
  /\ current_chunk = <<>>
  /\ chunk_index = 0
  /\ chunks = <<>>
  /\ pc = "call"
  /\ query \in {Q_nomatch, Q_qatal_e_amad}
  /\ rank_chunks \in {EnrichedChunks(tl) : tl \in ConcTextLists}
  /\ top_k \in {1, MaxTopK}
  /\ relevant = <<>>
  /\ rpc = "call"
  /\ AppIdle

\* the steps of the two invocations interleave freely
ConcNext == ChunkNext \/ RankNext

ConcSpec == ConcInit /\ [][ConcNext]_vars

----------------------------------------------------------------------------
(* The document store (file_upload.py) as the script of app.py drives it   *)

MaxUploads == 2      \* at most MaxUploads uuid4 values are drawn

MinTextLen == 50
UploadChunkSize == 800
UploadOverlap == 100
QueryTopK == 5

\* the list with the elements f[1], f[2], ...
List(f) == SubSeq(f, 1, Len(f))

\* json.dumps of a str: newline, quote and backslash become escapes
JsonEscape(s) ==
  List([i \in 1..Len(s) |->
          IF s[i] = "\n" THEN "\\n"
          ELSE IF s[i] = "\"" THEN "\\\""
          ELSE IF s[i] = "\\" THEN "\\\\"
          ELSE s[i]])

\* json.loads of a string literal
JsonUnescape(j) ==
  List([i \in 1..Len(j) |->
          IF j[i] = "\\n" THEN "\n"
          ELSE IF j[i] = "\\\"" THEN "\""
          ELSE IF j[i] = "\\\\" THEN "\\"
          ELSE j[i]])

\* json.loads of a number literal
JsonInt(digits) == CHOOSE n \in 0..99 : ToString(n) = digits

\* json.dumps(chunks): each chunk an object, its members in dict order
JsonDumps(cs) ==
  List([i \in 1..Len(cs) |->
          << <<"chunk_id", "str", cs[i].chunk_id>>,
             <<"doc_id", "str", cs[i].doc_id>>,
             <<"text", "str", JsonEscape(cs[i].text)>>,
             <<"chunk_index", "num", ToString(cs[i].chunk_index)>>,
             <<"preview", "str", JsonEscape(cs[i].preview)>> >>])

\* json.loads(doc['chunks'])
JsonLoads(js) ==
  List([i \in 1..Len(js) |->
          [chunk_id    |-> js[i][1][3],
           doc_id      |-> js[i][2][3],
           text        |-> JsonUnescape(js[i][3][3]),
           chunk_index |-> JsonInt(js[i][4][3]),
           preview     |-> JsonUnescape(js[i][5][3])]])

\* n times the character c
Rep(c, n) == List([i \in 1..n |-> c])

\* extracted texts: too short to keep, one paragraph, two long paragraphs
UT_short == <<"q", "a", "t", "a", "l">>
UT_one == <<"q", "a", "t", "a", "l", " ">> \o Rep("a", MinTextLen)
UT_two ==
  Rep("a", 450) \o ParaSep \o W_section
  \o <<" ", "m", "u", "r", "d", "e", "r", " ">> \o Rep("b", 360)

\* the files offered for upload: name, the two select boxes, extracted text
UploadFiles ==
  { [filename |-> "short.txt", country |-> "Pakistan", doc_type |-> "Act",
     text |-> UT_short],
    [filename |-> "one.txt", country |-> "Pakistan", doc_type |-> "Act",
     text |-> UT_one],
    [filename |-> "two.txt", country |-> "India", doc_type |-> "Policy",
     text |-> UT_two] }

\* st.session_state.user: a row of table users, or nobody logged in
NoUser == [logged_in |-> FALSE, user_id |-> "", role |-> ""]
Users ==
  { [logged_in |-> TRUE, user_id |-> "admin_001", role |-> "admin"],
    [logged_in |-> TRUE, user_id |-> "u1", role |-> "user"] }
Sessions == Users \cup {NoUser}

\* app.py lines 169-176
IsAdmin(user) == user.logged_in /\ user.role = "admin"
UserId(user) == IF user.logged_in THEN user.user_id ELSE "guest"
UserRole(user) == IF user.logged_in THEN user.role ELSE "guest"

\* str(uuid.uuid4()): a value never drawn before
Uuid(n) == "doc" \o ToString(n)

Reverse(s) == List([i \in 1..Len(s) |-> s[Len(s) + 1 - i]])

\* file_upload.py line 92 with every logged-in user seeing users' documents
Accessible_AnyUser(doc, uid, role) ==
  role = "admin" \/ doc.owner_role = "admin" \/ doc.owner_role = role

\* file_upload.py line 92
Accessible(doc, uid, role) ==
  role = "admin" \/ doc.owner_role = "admin" \/ doc.owner_id = uid

\* file_upload.py lines 93-96
PassesFilters(doc, country, doc_type) ==
  /\ ~(country # "" /\ country # "All" /\ doc.country # country)
  /\ ~(doc_type # "" /\ doc_type # "All" /\ doc.doc_type # doc_type)

\* file_upload.py lines 84-90: the rows newest first, chunks parsed
AllDocs(rows) ==
  LET all_docs == Reverse(rows)
  IN List([i \in 1..Len(all_docs) |->
             [all_docs[i] EXCEPT !.chunks = JsonLoads(all_docs[i].chunks)]])

\* file_upload.py lines 78-99 ("" stands for None)
get_documents_by_filters(rows, uid, role, country, doc_type) ==
  LET Keep(doc) == Accessible(doc, uid, role)
                   /\ PassesFilters(doc, country, doc_type)
  IN SelectSeq(AllDocs(rows), Keep)

\* file_upload.py lines 135-143: the chunks of the documents in turn
RECURSIVE ChunksOfDocs(_)
ChunksOfDocs(docs) ==
  IF docs = <<>> THEN <<>>
  ELSE LET doc == Head(docs)
       IN List([i \in 1..Len(doc.chunks) |->
                  WithMeta(doc.chunks[i], doc.filename, doc.country,
                           doc.doc_type)])
          \o ChunksOfDocs(Tail(docs))

\* file_upload.py lines 131-144
get_all_chunks(rows, uid, role) ==
  ChunksOfDocs(get_documents_by_filters(rows, uid, role, "", ""))

\* file_upload.py lines 61-76: the row INSERTed
NewRow(did, file, owner_id, owner_role, cs, date) ==
  [id           |-> did,
   filename     |-> file.filename,
   country      |-> file.country,
   doc_type     |-> file.doc_type,
   upload_date  |-> date,
   owner_id     |-> owner_id,
   owner_role   |-> owner_role,
   file_content |-> file.filename,
   chunks       |-> JsonDumps(cs)]

\* file_upload.py line 127: DELETE FROM documents WHERE id = ?
DeleteRows(rows, did) ==
  LET Other(doc) == doc.id # did
  IN SelectSeq(rows, Other)

\* no run of the script is in progress
Ready == op \in {"idle", "ended"}

\* the run of the script leaves no result of the other operations
NoQuery ==
  /\ query' = <<>>
  /\ rank_chunks' = <<>>
  /\ top_k' = 0
  /\ relevant' = <<>>
  /\ rpc' = "idle"

\* app.py lines 199-231 with a text of 50 characters or more
Upload ==
  \E user \in Sessions, file \in UploadFiles :
    /\ Ready
    /\ uuid_count < MaxUploads
    /\ Len(Strip(file.text)) >= MinTextLen
    /\ LET did == Uuid(uuid_count + 1)
           cs == chunk_text(file.text, did, UploadChunkSize, UploadOverlap)
           owner_role == IF IsAdmin(user) THEN "admin" ELSE "user"
       IN /\ documents' = Append(documents,
                                 NewRow(did, file, UserId(user), owner_role,
                                        cs, uuid_count + 1))
          /\ produced' = Append(produced, <<did, cs>>)
    /\ uuid_count' = uuid_count + 1
    /\ op' = "upload"
    /\ user_id' = UserId(user)
    /\ user_role' = UserRole(user)
    /\ listed' = <<>>
    /\ deleted' = <<>>
    /\ NoQuery
    /\ UNCHANGED <<chunkVars, qaVars>>

\* app.py lines 199-215 with a text of fewer than 50 characters
UploadRejected ==
  \E user \in Sessions, file \in UploadFiles :
    /\ Ready
    /\ uuid_count < MaxUploads
    /\ Len(Strip(file.text)) < MinTextLen
    /\ uuid_count' = uuid_count + 1
    /\ op' = "rejected"
    /\ user_id' = UserId(user)
    /\ user_role' = UserRole(user)
    /\ listed' = <<>>
    /\ deleted' = <<>>
    /\ NoQuery
    /\ UNCHANGED <<documents, produced, chunkVars, qaVars>>

FilterCountries == {"All", "India"}
FilterTypes == {"All", "Act"}

\* app.py lines 243-259: the documents listed for the session
ListDocuments ==
  \E user \in Sessions, country \in FilterCountries, doc_type \in FilterTypes :
    /\ Ready
    /\ listed' = get_documents_by_filters(documents, UserId(user),
                                          UserRole(user), country, doc_type)
    /\ op' = "list"
    /\ user_id' = UserId(user)
    /\ user_role' = UserRole(user)
    /\ deleted' = <<>>
    /\ NoQuery
    /\ UNCHANGED <<documents, uuid_count, produced, chunkVars, qaVars>>

Questions == {Q_Murder, Q_nomatch}

\* app.py lines 295-302 storing the chunks with their metadata back
GetAnswer_StoresMeta ==
  \E user \in Sessions, question \in Questions :
    /\ Ready
    /\ Strip(question) # <<>>
    /\ query' = question
    /\ rank_chunks' = get_all_chunks(documents, UserId(user), UserRole(user))
    /\ top_k' = QueryTopK
    /\ relevant' = find_relevant_chunks(question, rank_chunks', QueryTopK)
    /\ rpc' = "done"
    /\ documents' =
         [i \in 1..Len(documents) |->
            [documents[i] EXCEPT !.chunks =
               [c \in 1..Len(@) |-> Append(@[c], <<"filename", "str",
                                                   documents[i].filename>>)]]]
    /\ op' = "query"
    /\ user_id' = UserId(user)
    /\ user_role' = UserRole(user)
    /\ listed' = <<>>
    /\ deleted' = <<>>
    /\ UNCHANGED <<uuid_count, produced, chunkVars, qaVars>>

\* app.py lines 295-302: the chunks gathered for the session and ranked
GetAnswer ==
  \E user \in Sessions, question \in Questions :
    /\ Ready
    /\ Strip(question) # <<>>
    /\ query' = question
    /\ rank_chunks' = get_all_chunks(documents, UserId(user), UserRole(user))
    /\ top_k' = QueryTopK
    /\ relevant' = find_relevant_chunks(question, rank_chunks', QueryTopK)
    /\ rpc' = "done"
    /\ op' = "query"
    /\ user_id' = UserId(user)
    /\ user_role' = UserRole(user)
    /\ listed' = <<>>
    /\ deleted' = <<>>
    /\ UNCHANGED <<documents, uuid_count, produced, chunkVars, qaVars>>

\* the doc_id arguments tried: every id drawn so far and one never drawn
DocIdArgs == {Uuid(n) : n \in 0..uuid_count}

\* file_upload.py lines 121-129 deleting for the owner of the document too
DeleteDocument_OwnerToo ==
  \E user \in Sessions, did \in DocIdArgs :
    /\ Ready
    /\ LET allowed ==
             \/ UserRole(user) = "admin"
             \/ \E i \in 1..Len(documents) :
                  documents[i].id = did /\ documents[i].owner_id = UserId(user)
           rows == IF allowed THEN DeleteRows(documents, did) ELSE documents
       IN /\ documents' = rows
          /\ deleted' = <<did, UserRole(user), Len(rows) < Len(documents)>>
    /\ op' = "delete"
    /\ user_id' = UserId(user)
    /\ user_role' = UserRole(user)
    /\ listed' = <<>>
    /\ NoQuery
    /\ UNCHANGED <<uuid_count, produced, chunkVars, qaVars>>

\* file_upload.py lines 121-129: one call of delete_document
DeleteDocument ==
  \E user \in Sessions, did \in DocIdArgs :
    /\ Ready
    /\ LET rows == IF UserRole(user) # "admin" THEN documents
                   ELSE DeleteRows(documents, did)
       IN /\ documents' = rows
          /\ deleted' = <<did, UserRole(user), Len(rows) < Len(documents)>>
    /\ op' = "delete"
    /\ user_id' = UserId(user)
    /\ user_role' = UserRole(user)
    /\ listed' = <<>>
    /\ NoQuery
    /\ UNCHANGED <<uuid_count, produced, chunkVars, qaVars>>

\* the run of the script ends: its local variables are gone
EndRun ==
  /\ ~Ready
  /\ op' = "ended"
  /\ listed' = <<>>
  /\ deleted' = <<>>
  /\ user_id' = "guest"
  /\ user_role' = "guest"
  /\ NoQuery
  /\ UNCHANGED <<documents, uuid_count, produced, chunkVars, qaVars>>

StoreInit ==
  /\ StoreIdle
  /\ QaIdle
  /\ ChunkIdle
  /\ RankIdle

StoreNext ==
  \/ Upload
  \/ UploadRejected
  \/ ListDocuments
  \/ GetAnswer
  \/ DeleteDocument
  \/ EndRun

StoreSpec == StoreInit /\ [][StoreNext]_vars

----------------------------------------------------------------------------
(* get_answer_from_chunks (qa.py): one step per answer of the model        *)

MaxDepth == 4        \* nested calls the interpreter allows (its recursion limit)

\* generate_content gives an answer, an answer holding a refusal phrase
\* ("documents don't contain" or "cannot find"), or raises an exception

\* qa.py lines 97-140, for an answer that names no document
AnswerDict(kind, cs) ==
  [answer                 |-> kind,
   sources                |-> <<>>,
   model_used             |-> "gemini-2.0-flash",
   chunks_used            |-> Len(cs),
   used_general_knowledge |-> Len(cs) > 0,
   has_document_context   |-> Len(cs) > 0,
   refusal_detected       |-> FALSE]

\* qa.py lines 142-151
ErrorDict(cs) ==
  [answer                 |-> "Error",
   sources                |-> <<>>,
   error                  |-> "exception",
   model_used             |-> "None",
   used_general_knowledge |-> FALSE,
   has_document_context   |-> Len(cs) > 0,
   refusal_detected       |-> FALSE]

QaInit ==
  /\ attempt = 1
  /\ qa_chunks \in {EnrichedChunks(tl) : tl \in TextLists}
  /\ answers = <<>>
  /\ qa_result = "none"
  /\ qpc = "call"
  /\ StoreIdle
  /\ ChunkIdle
  /\ RankIdle

\* lines 84-89, 97-140: the model answers and the answer is returned
QaAnswer ==
  /\ qpc = "call"
  /\ answers' = Append(answers, "answer")
  /\ qa_result' = AnswerDict("answer", qa_chunks)
  /\ qpc' = "done"
  /\ UNCHANGED <<attempt, qa_chunks, chunkVars, rankVars, storeVars>>

\* lines 92-95: the answer holds a refusal phrase; the function calls itself
\* with chunks=[]
QaRefusal ==
  /\ qpc = "call"
  /\ attempt < MaxDepth
  /\ answers' = Append(answers, "refusal")
  /\ attempt' = attempt + 1
  /\ qa_chunks' = <<>>
  /\ UNCHANGED <<qa_result, qpc, chunkVars, rankVars, storeVars>>

\* lines 92-95, 142-151: the nested call exceeds the interpreter's limit; the
\* RecursionError is caught by line 142 and the error dict is returned
QaRefusalAtLimit ==
  /\ qpc = "call"
  /\ attempt = MaxDepth
  /\ answers' = Append(answers, "refusal")
  /\ qa_result' = ErrorDict(qa_chunks)
  /\ qpc' = "done"
  /\ UNCHANGED <<attempt, qa_chunks, chunkVars, rankVars, storeVars>>

\* lines 142-151: generate_content raises
QaException ==
  /\ qpc = "call"
  /\ answers' = Append(answers, "exception")
  /\ qa_result' = ErrorDict(qa_chunks)
  /\ qpc' = "done"
  /\ UNCHANGED <<attempt, qa_chunks, chunkVars, rankVars, storeVars>>

QaNext ==
  \/ QaAnswer
  \/ QaRefusal
  \/ QaRefusalAtLimit
  \/ QaException

QaSpec == QaInit /\ [][QaNext]_vars

----------------------------------------------------------------------------
(* Properties of find_relevant_chunks, checked under RankSpec              *)

W_qatal == <<"q", "a", "t", "a", "l">>
W_amad == <<"a", "m", "a", "d">>

\* the expanded terms of the call in progress
QueryExpanded == expanded_terms(query)

\* the score the call gives to the chunk at input position i
ScoreAt(i) == Score(QueryExpanded, rank_chunks[i])

\* the positions of the result that hold the chunk at input position i
ReturnedAt(i) == {p \in 1..Len(relevant) : relevant[p] = rank_chunks[i]}

\* the first n elements of the input, in input order
FirstOfInput(n) == [i \in 1..Min(n, Len(rank_chunks)) |-> rank_chunks[i]]

\* C1: for every query, chunk sequence and top_k, the call returns at most
\* top_k chunks and at most len(chunks) chunks.
C1_TopKBound ==
  rpc = "done" =>
    /\ Len(relevant) <= top_k
    /\ Len(relevant) <= Len(rank_chunks)

\* C2: for the query "qatal amad", a chunk holding the adjacent phrase
\* "qatal amad" scores strictly higher than a chunk holding "qatal" and "amad"
\* only apart, and is returned before it, whatever the input order.
C2_PhraseBonus ==
  (rpc = "done" /\ query = Q_qatal_amad) =>
    \A i, j \in 1..Len(rank_chunks) :
      LET ti == Lower(rank_chunks[i].text)
          tj == Lower(rank_chunks[j].text)
      IN (/\ Contains(ti, W_qatal \o <<" ">> \o W_amad)
          /\ Contains(tj, W_qatal) /\ Contains(tj, W_amad)
          /\ ~Contains(tj, W_qatal \o <<" ">> \o W_amad))
         => /\ ScoreAt(i) > ScoreAt(j)
            /\ \A q \in ReturnedAt(j) : \E p \in ReturnedAt(i) : p < q

\* no expanded term and no adjacent pair of expanded terms occurs in any chunk
NoLexicalOverlap ==
  LET expanded == QueryExpanded
  IN \A i \in 1..Len(rank_chunks) :
       LET t == Lower(rank_chunks[i].text)
       IN /\ \A term \in Range(expanded) : ~Contains(t, term)
          /\ \A k \in 1..(Len(expanded) - 1) :
               ~Contains(t, expanded[k] \o <<" ">> \o expanded[k + 1])

\* no chunk holds "section" or "chapter"
NoHeading ==
  \A i \in 1..Len(rank_chunks) :
    LET t == Lower(rank_chunks[i].text)
    IN ~Contains(t, W_section) /\ ~Contains(t, W_chapter)

\* C4 as stated: every query that is empty or has no lexical overlap with the
\* chunks gets exactly the first 3 chunks of the input, in input order.
C4_FallbackOnNoOverlap ==
  (rpc = "done" /\ (query = <<>> \/ NoLexicalOverlap)) =>
    relevant = FirstOfInput(3)

\* C4 amended: every query that is empty or has no lexical overlap with the
\* chunks gets exactly the first 3 chunks of the input, in input order,
\* provided no chunk holds "section" or "chapter".
C4_FallbackOnNoOverlapNoHeading ==
  (rpc = "done" /\ (query = <<>> \/ NoLexicalOverlap) /\ NoHeading) =>
    relevant = FirstOfInput(3)

C4_Witness ==
  /\ rpc = "done"
  /\ query = Q_nomatch
  /\ NoLexicalOverlap
  /\ NoHeading
  /\ Len(rank_chunks) = 4
  /\ relevant = SubSeq(rank_chunks, 1, 3)

\* C5: whenever no chunk of the input scores above 0, the call returns the
\* first min(3, len(chunks)) elements of the input, in input order and
\* unchanged, for every top_k; an empty collection yields an empty result.
C5_FallbackFirstThree ==
  rpc = "done" =>
    /\ (\A i \in 1..Len(rank_chunks) : ScoreAt(i) = 0)
         => /\ Len(relevant) = Min(3, Len(rank_chunks))
            /\ \A i \in 1..Len(relevant) : relevant[i] = rank_chunks[i]
    /\ rank_chunks = <<>> => relevant = <<>>

C5_Witness ==
  /\ rpc = "done"
  /\ Len(rank_chunks) = 4
  /\ \A i \in 1..4 : ScoreAt(i) = 0
  /\ top_k = 1
  /\ Len(relevant) = 3

\* the chunk at input position i holds the non-Latin rendering of "qatal"
\* and not the Latin spelling
ScriptOnly(i) ==
  /\ Contains(rank_chunks[i].text, T_script)
  /\ ~Contains(Lower(rank_chunks[i].text), W_qatal)

\* the chunks ranked before the chunk at input position i: a higher score, or
\* the same score and an earlier input position
RankedBefore(i) ==
  {j \in 1..Len(rank_chunks) :
     ScoreAt(j) > ScoreAt(i) \/ (ScoreAt(j) = ScoreAt(i) /\ j < i)}

\* C6 as stated: for the query "qatal e amad" and top_k >= 1, a chunk holding
\* the non-Latin rendering but not "qatal" scores above 0 and is returned,
\* whatever the other chunks are.
C6_SynonymAlwaysReturned ==
  (rpc = "done" /\ query = Q_qatal_e_amad /\ top_k >= 1) =>
    \A i \in 1..Len(rank_chunks) :
      ScriptOnly(i) => ScoreAt(i) > 0 /\ ReturnedAt(i) # {}

\* C6 amended: for the query "qatal e amad" and top_k >= 1, a chunk holding
\* the non-Latin rendering but not "qatal" scores above 0, and it is returned
\* when fewer than top_k chunks are ranked before it.
C6_SynonymReturnedWithinTopK ==
  (rpc = "done" /\ query = Q_qatal_e_amad /\ top_k >= 1) =>
    \A i \in 1..Len(rank_chunks) :
      ScriptOnly(i) =>
        /\ ScoreAt(i) > 0
        /\ Cardinality(RankedBefore(i)) < top_k => ReturnedAt(i) # {}

C6_Witness ==
  /\ rpc = "done"
  /\ query = Q_qatal_e_amad
  /\ top_k = 2
  /\ Len(rank_chunks) = 3
  /\ ScriptOnly(3)
  /\ Cardinality(RankedBefore(3)) = 1
  /\ ReturnedAt(3) = {2}

----------------------------------------------------------------------------
(* Properties of chunk_text, checked under ChunkSpec                       *)

\* the text has a character that is not whitespace
NonBlank(t) == \E i \in 1..Len(t) : t[i] \notin WhiteSpace

\* p is a prefix of s
IsPrefix(p, s) == Len(p) <= Len(s) /\ SubSeq(s, 1, Len(p)) = p

\* the last n characters of s, 0 <= n <= Len(s)
LastChars(s, n) == SubSeq(s, Len(s) - n + 1, Len(s))

\* the non-empty trimmed paragraphs of a text, in order
RECURSIVE TrimmedNonEmpty(_)
TrimmedNonEmpty(paras) ==
  IF paras = <<>> THEN <<>>
  ELSE (IF NonBlank(Head(paras)) THEN <<Strip(Head(paras))>> ELSE <<>>)
       \o TrimmedNonEmpty(Tail(paras))

DocParagraphs == TrimmedNonEmpty(SplitOn(text, ParaSep))

ChunkTextsOf(cs) == [i \in 1..Len(cs) |-> cs[i].text]

\* The chunk texts ts, the first of which follows a chunk with text prev
\* (first = TRUE when it has no predecessor), are made of the paragraphs
\* paras, every chunk after the first being the trimmed concatenation of
\* exactly the last min(ov, len(prev)) characters of its predecessor's text,
\* the separator, and one or more whole paragraphs.
RECURSIVE CoveredWithOverlap(_, _, _, _, _)
CoveredWithOverlap(ts, prev, first, paras, ov) ==
  IF ts = <<>> THEN paras = <<>>
  ELSE \E n \in 1..Len(paras) :
         LET body == Join(SubSeq(paras, 1, n), ParaSep)
             carried == LastChars(prev, Min(ov, Len(prev)))
         IN /\ IF first THEN Head(ts) = body
               ELSE Head(ts) = Strip(carried \o ParaSep \o body)
            /\ CoveredWithOverlap(Tail(ts), Head(ts), FALSE,
                                  SubSeq(paras, n + 1, Len(paras)), ov)

\* C3: every chunk after the first begins with exactly the last
\* min(overlap, len(previous text)) characters of the previous chunk's text,
\* followed by the paragraph separator (and then its own paragraphs; the
\* chunk text being trimmed).
C3_OverlapPrefix ==
  (pc = "done" /\ overlap >= 0 /\ NonBlank(text)) =>
    CoveredWithOverlap(ChunkTextsOf(chunks), <<>>, TRUE, DocParagraphs, overlap)

\* The chunk texts ts, the first of which follows a chunk with text prev
\* (first = TRUE when it has no predecessor), are made of the paragraphs
\* paras: every chunk is what it carries from its predecessor, the
\* separator, and one or more whole paragraphs, the paragraphs being used
\* in order, each once.
RECURSIVE CoveredBy(_, _, _, _)
CoveredBy(ts, prev, first, paras) ==
  IF ts = <<>> THEN paras = <<>>
  ELSE \E n \in 1..Len(paras) :
         LET body == Join(SubSeq(paras, 1, n), ParaSep)
         IN /\ IF first THEN Head(ts) = body
               ELSE \E c \in 0..Len(prev) :
                      Head(ts) = Strip(LastChars(prev, c) \o ParaSep \o body)
            /\ CoveredBy(Tail(ts), Head(ts), FALSE,
                         SubSeq(paras, n + 1, Len(paras)))

\* C7: for a text with a non-blank paragraph, the chunks in index order,
\* each but the first without the prefix carried from its predecessor, are
\* the non-empty trimmed paragraphs of the text in original order, each
\* whole and exactly once.
C7_Coverage ==
  (pc = "done" /\ NonBlank(text)) =>
    CoveredBy(ChunkTextsOf(chunks), <<>>, TRUE, DocParagraphs)

C7_Witness ==
  /\ pc = "done"
  /\ Len(DocParagraphs) = 3
  /\ Len(chunks) = 2
  /\ overlap = 1
  /\ chunks[2].text # DocParagraphs[3]
  /\ CoveredBy(ChunkTextsOf(chunks), <<>>, TRUE, DocParagraphs)

\* C8: the n returned chunks have chunk_index 0..n-1 in list order, doc_id
\* equal to the argument and chunk_id "{doc_id}_chunk_{chunk_index}", so the
\* chunk_ids are pairwise distinct.
C8_IndexContiguity ==
  pc = "done" =>
    /\ \A i \in 1..Len(chunks) :
         /\ chunks[i].chunk_index = i - 1
         /\ chunks[i].doc_id = doc_id
         /\ chunks[i].chunk_id = doc_id \o "_chunk_" \o ToString(i - 1)
    /\ \A i, j \in 1..Len(chunks) :
         i # j => chunks[i].chunk_id # chunks[j].chunk_id

C8_Witness ==
  /\ pc = "done"
  /\ Len(chunks) = 3
  /\ doc_id = "d2"
  /\ chunks[3].chunk_id = "d2_chunk_2"

\* C9: an empty or whitespace-only text (blank lines included) gives the
\* empty sequence; a text with a non-whitespace character gives at least one
\* chunk.
C9_EmptyInput ==
  pc = "done" =>
    /\ ~NonBlank(text) => chunks = <<>>
    /\ NonBlank(text) => Len(chunks) >= 1

C9_Witness ==
  /\ pc = "done"
  /\ Len(text) > 2
  /\ Contains(text, ParaSep)
  /\ ~NonBlank(text)
  /\ chunks = <<>>

\* C10: a text that is a single paragraph (no blank line in it) and longer
\* than chunk_size gives exactly one chunk, whose text is the whole trimmed
\* paragraph, for every overlap.
C10_OversizedParagraph ==
  (/\ pc = "done"
   /\ NonBlank(text)
   /\ ~Contains(text, ParaSep)
   /\ Len(text) > chunk_size) =>
    /\ Len(chunks) = 1
    /\ chunks[1].text = Strip(text)

C10_Witness ==
  /\ pc = "done"
  /\ ~Contains(text, ParaSep)
  /\ Len(Strip(text)) = 3
  /\ chunk_size = 1
  /\ Len(chunks) = 1
  /\ chunks[1].text = Strip(text)

----------------------------------------------------------------------------
(* Further properties of find_relevant_chunks, checked under RankSpec      *)

\* C11: for every query, every non-empty chunk sequence and every
\* top_k >= 1, the call returns at least one chunk, matched or not.
C11_SomeContext ==
  (rpc = "done" /\ rank_chunks # <<>> /\ top_k >= 1) => Len(relevant) >= 1

C11_Witness ==
  /\ rpc = "done"
  /\ Len(rank_chunks) = 1
  /\ ScoreAt(1) = 0
  /\ top_k = 2
  /\ relevant = rank_chunks


\* the scores of the chunks cs, in order
RECURSIVE ScoreList(_, _)
ScoreList(expanded, cs) ==
  IF cs = <<>> THEN <<>>
  ELSE <<Score(expanded, Head(cs))>> \o ScoreList(expanded, Tail(cs))

\* the result is the top_k selection for the scores sc of the input chunks
IsTopKSelection(sc) ==
  LET pos == {i \in 1..Len(rank_chunks) : sc[i] > 0}
  IN pos # {} =>
       /\ Len(relevant) = Min(top_k, Cardinality(pos))
       /\ \A i \in pos :
            LET r == 1 + Cardinality({j \in pos :
                           sc[j] > sc[i] \/ (sc[j] = sc[i] /\ j < i)})
            IN IF r <= top_k THEN relevant[r] = rank_chunks[i]
               ELSE ReturnedAt(i) = {}
       /\ \A i \in 1..Len(rank_chunks) : sc[i] = 0 => ReturnedAt(i) = {}

\* C12: on the scored path the call returns exactly the first top_k elements
\* of the chunks with score > 0 ordered by non-increasing score, chunks of
\* equal score keeping their input order; no chunk with score 0 is returned.
C12_ScoredSelection ==
  rpc = "done" =>
    \A sc \in {ScoreList(QueryExpanded, rank_chunks)} : IsTopKSelection(sc)

C12_Witness ==
  /\ rpc = "done"
  /\ Len(rank_chunks) = 4
  /\ top_k = 2
  /\ ScoreAt(1) = 0
  /\ ScoreAt(2) > 0
  /\ ScoreAt(3) = ScoreAt(2)
  /\ ScoreAt(4) > ScoreAt(2)
  /\ relevant = <<rank_chunks[4], rank_chunks[2]>>

----------------------------------------------------------------------------
(* Further properties of chunk_text                                        *)

----------------------------------------------------------------------------
(* Properties of concurrent invocations, checked under ConcSpec            *)

\* C15: find_relevant_chunks never modifies its arguments; every returned
\* element is an element of the input with all its fields unchanged, each
\* input position returned at most once; and in any interleaving with
\* chunk_text each invocation returns what it returns running alone.
C15_NoInterference ==
  [][/\ <<query, rank_chunks, top_k>>' = <<query, rank_chunks, top_k>>
     /\ <<text, doc_id, chunk_size, overlap>>' = <<text, doc_id, chunk_size, overlap>>
     /\ rpc' = "done" =>
          /\ relevant' = find_relevant_chunks(query, rank_chunks, top_k)
          /\ \A p \in 1..Len(relevant') :
               \E i \in 1..Len(rank_chunks) : relevant'[p] = rank_chunks[i]
          /\ \A p, q \in 1..Len(relevant') :
               p # q => relevant'[p] # relevant'[q]
     /\ pc' = "done" =>
          chunks' = chunk_text(text, doc_id, chunk_size, overlap)]_vars

C15_Witness ==
  /\ pc = "done"
  /\ rpc = "done"
  /\ Len(chunks) >= 2
  /\ Len(relevant) = 2
  /\ relevant[1] = rank_chunks[2]
  /\ relevant[1].filename = "law.txt"

\* C16: chunk_text terminates and returns for every text, chunk_size and
\* overlap (0, overlap >= chunk_size and values larger than the text
\* included), and it never emits more chunks than the text has non-empty
\* paragraphs.
C16_Terminates ==
  /\ <>(pc = "done")
  /\ [](Len(chunks) <= Len(DocParagraphs))

C16_Witness ==
  /\ pc = "done"
  /\ chunk_size = 0
  /\ overlap = MaxOverlap
  /\ overlap > Len(text)
  /\ Len(chunks) = 1
  /\ Len(DocParagraphs) = 1

\* the loop is about to handle a paragraph that is not blank
AtParagraph ==
  /\ pc = "loop"
  /\ para_i <= Len(paragraphs)
  /\ Strip(paragraphs[para_i]) # <<>>

\* C17: the current chunk is closed before a paragraph exactly when the
\* buffer is non-empty and len(buffer) + len(separator) + len(paragraph)
\* exceeds chunk_size; so a buffer extended by appending to a non-empty
\* buffer never exceeds chunk_size.
C17_CloseCondition ==
  [][AtParagraph =>
       LET para == Strip(paragraphs[para_i])
           closes == Len(chunks') > Len(chunks)
       IN /\ closes <=> /\ current_chunk # <<>>
                        /\ Len(current_chunk) + Len(ParaSep) + Len(para)
                             > chunk_size
          /\ (~closes /\ current_chunk # <<>>) =>
               Len(current_chunk') <= chunk_size]_vars

\* C18: when a chunk is closed, the next buffer is the last
\* min(overlap, len(closed buffer)) characters of the closed buffer, the
\* separator and the new paragraph, for every overlap >= 0; overlap = 0
\* carries nothing.
C18_CarryOverlap ==
  [][(AtParagraph /\ Len(chunks') > Len(chunks) /\ overlap >= 0) =>
       current_chunk' =
         LastChars(current_chunk, Min(overlap, Len(current_chunk)))
           \o ParaSep \o Strip(paragraphs[para_i])]_vars

\* C19: in a multi-paragraph text a paragraph longer than chunk_size is
\* never split and is its own chunk: the buffer it enters holds at most
\* overlap characters of the previous chunk, the separator and the whole
\* paragraph, and no paragraph is appended to a buffer longer than
\* chunk_size.
C19_OversizedOwnChunk ==
  [][(AtParagraph /\ Len(DocParagraphs) >= 2 /\ overlap >= 0) =>
       LET para == Strip(paragraphs[para_i])
           closes == Len(chunks') > Len(chunks)
       IN /\ Len(para) > chunk_size =>
               \/ current_chunk = <<>> /\ current_chunk' = para
               \/ /\ closes
                  /\ \E c \in 0..Min(overlap, Len(current_chunk)) :
                       current_chunk' =
                         LastChars(current_chunk, c) \o ParaSep \o para
          /\ (~closes /\ current_chunk # <<>>) =>
               Len(current_chunk) <= chunk_size]_vars

----------------------------------------------------------------------------
(* Term expansion, checked under RankSpec                                  *)

W_killing == <<"k", "i", "l", "l", "i", "n", "g">>
W_murder == <<"m", "u", "r", "d", "e", "r">>
W_amd == <<"a", "m", "d">>
W_amad_script == <<"U+0639", "U+0645", "U+062F">>
W_intentional == <<"i", "n", "t", "e", "n", "t", "i", "o", "n", "a", "l">>

\* the variant lists of "qatal" and "amad", as the table holds them
QatalVariants == <<W_qatal, T_script, W_killing, W_murder>>
AmadVariants == <<W_amad, W_amd, W_amad_script, W_intentional>>

\* C20: the expanded term list is, for each lower-cased query term in query
\* order, the term itself followed by all variants of every table entry
\* whose variant list holds the term; a term in no list contributes only
\* itself, and a term that is a variant and not a key ("murder") pulls in
\* the whole list of its entry.
C20_Expansion ==
  rpc = "done" =>
    \A e \in {expanded_terms(query)} :
      /\ query = Q_empty => e = <<>>
      /\ query = Q_nomatch => e = <<Q_nomatch>>
      /\ query = Q_Murder => e = <<W_murder>> \o QatalVariants
      /\ query = Q_qatal_amad =>
           e = <<W_qatal>> \o QatalVariants \o <<W_amad>> \o AmadVariants
      /\ query = Q_qatal_e_amad =>
           e = <<W_qatal>> \o QatalVariants \o << <<"e">> >>
                 \o <<W_amad>> \o AmadVariants

C20_Witness ==
  /\ rpc = "done"
  /\ query = Q_Murder
  /\ Len(expanded_terms(query)) = 5
  /\ expanded_terms(query)[1] = W_murder
  /\ expanded_terms(query)[2] = W_qatal

\* the chunk at input position i holds the query's words as they are written
QueryPhraseIn(i) ==
  Contains(Lower(rank_chunks[i].text), Join(SplitWs(Lower(query)), <<" ">>))

\* C21: the phrase component of a chunk's score is 10 for every position of
\* the expanded term list whose term and successor, joined by a space, occur
\* in the lower-cased chunk text; two terms adjacent in the query earn the
\* bonus for their own adjacency, so a chunk holding the two-term query
\* "qatal amad" as a phrase scores at least 10.
C21_QueryAdjacency ==
  (rpc = "done" /\ query = Q_qatal_amad) =>
    \A i \in 1..Len(rank_chunks) : QueryPhraseIn(i) => ScoreAt(i) >= 10

\* the lower-cased text of the chunk at input position i
LowerTextAt(i) == Lower(rank_chunks[i].text)

\* no adjacent pair of the terms e, joined by a space, occurs in t
NoPhraseIn(e, t) ==
  \A k \in 1..(Len(e) - 1) : ~Contains(t, e[k] \o <<" ">> \o e[k + 1])

\* t holds neither "section" nor "chapter"
NoHeadingIn(t) == ~Contains(t, W_section) /\ ~Contains(t, W_chapter)

\* the words of the list e, each taken once, that occur in t
DistinctTermsIn(e, t) ==
  {w \in {e[k] : k \in 1..Len(e)} :
     \E p \in 1..(Len(t) - Len(w) + 1) :
       \A c \in 1..Len(w) : t[p + c - 1] = w[c]}

\* C22: the single-term component of a chunk's score is the number of
\* distinct expanded terms that occur in the lower-cased chunk text: a chunk
\* with no phrase and no heading bonus scores exactly that number, a term
\* repeated in the query ("a a") or duplicated by expansion ("qatal amad")
\* counts once, and so does a term that occurs several times in the chunk.
C22_DistinctTerms ==
  rpc = "done" =>
    \A e \in {QueryExpanded} :
      \A i \in 1..Len(rank_chunks) :
        \A t \in {LowerTextAt(i)} :
          /\ (NoPhraseIn(e, t) /\ NoHeadingIn(t)) =>
               ScoreAt(i) = Cardinality(DistinctTermsIn(e, t))
          /\ (query = Q_a_a /\ rank_chunks[i].text = T_phrase) =>
               ScoreAt(i) = 1
          /\ (query = Q_qatal_amad /\ rank_chunks[i].text = T_phrase) =>
               ScoreAt(i) = 2

C22_Witness ==
  /\ rpc = "done"
  /\ query = Q_a_a
  /\ Len(QueryExpanded) = 2
  /\ Len(rank_chunks) >= 1
  /\ rank_chunks[1].text = T_phrase
  /\ Cardinality(Occurrences(LowerTextAt(1), <<"a">>)) = 4
  /\ ScoreAt(1) = 1
  /\ relevant[1] = rank_chunks[1]

----------------------------------------------------------------------------
(* Properties of the heading bonus, checked under HeadingSpec              *)

\* C23: a chunk whose lower-cased text holds "section" or "chapter" gets
\* exactly +2, once also when it holds both, whatever the query: it scores
\* at least 2 for every query, exactly 2 for the empty query, and exactly 2
\* more than its distinct-term count when it earns no phrase bonus; a chunk
\* with neither word gets no heading bonus.
C23_HeadingBonus ==
  rpc = "done" =>
    \A e \in {QueryExpanded} :
      \A i \in 1..Len(rank_chunks) :
        \A t \in {LowerTextAt(i)} :
          \A bonus \in {IF NoHeadingIn(t) THEN 0 ELSE 2} :
            /\ ScoreAt(i) >= bonus
            /\ query = Q_empty => ScoreAt(i) = bonus
            /\ NoPhraseIn(e, t) =>
                 ScoreAt(i) = Cardinality(DistinctTermsIn(e, t)) + bonus

C23_Witness ==
  /\ rpc = "done"
  /\ query = Q_empty
  /\ Len(rank_chunks) = 2
  /\ rank_chunks[1].text = T_plain
  /\ rank_chunks[2].text = T_both
  /\ Contains(LowerTextAt(2), W_section)
  /\ Contains(LowerTextAt(2), W_chapter)
  /\ ScoreAt(2) = 2
  /\ ScoreAt(1) = 0
  /\ top_k >= 1
  /\ relevant = <<rank_chunks[2]>>

----------------------------------------------------------------------------
(* Properties of the query's spelling, checked under SpellingSpec          *)

\* C29: the hyphenated query "qatal-e-amd" is expanded and scored like the
\* space-separated "qatal e amd": every chunk gets the same score under both
\* spellings, and the call returns what it returns for the spaced spelling.
C29_HyphenatedQuery ==
  (rpc = "done" /\ query = Q_qatal_e_amd_hyphen) =>
    /\ \A i \in 1..Len(rank_chunks) :
         ScoreAt(i) = Score(expanded_terms(Q_qatal_e_amd), rank_chunks[i])
    /\ relevant = find_relevant_chunks(Q_qatal_e_amd, rank_chunks, top_k)

----------------------------------------------------------------------------
(* Properties of the document store, checked under StoreSpec               *)

\* the ids of the rows
IdsOf(rows) == {rows[i].id : i \in 1..Len(rows)}

\* what chunk_text returned at the upload that drew the id
ProducedFor(did) ==
  produced[CHOOSE k \in 1..Len(produced) : produced[k][1] = did][2]

\* the chunk as get_all_chunks hands it on is the stored chunk c of the row
\* doc with the row's filename, country and doc_type attached
IsCopyWithMeta(chunk, c, doc) ==
  /\ chunk.chunk_id = c.chunk_id
  /\ chunk.doc_id = c.doc_id
  /\ chunk.text = c.text
  /\ chunk.chunk_index = c.chunk_index
  /\ chunk.preview = c.preview
  /\ chunk.filename = doc.filename
  /\ chunk.country = doc.country
  /\ chunk.doc_type = doc.doc_type

\* every chunk produced for the row doc is among the chunks gathered
AllReturned(doc) ==
  \A k \in 1..Len(ProducedFor(doc.id)) :
    \E p \in 1..Len(rank_chunks) :
      IsCopyWithMeta(rank_chunks[p], ProducedFor(doc.id)[k], doc)

\* C24: after any sequence of uploads, queries and deletes, the chunk list
\* stored for every document still present is the list chunk_text produced
\* at its upload; a query changes no stored row and an admin's query gathers
\* every chunk of every document present; a row leaves the table only in a
\* delete_document call for its id that returns True, and rows present
\* before and after a step are unchanged.
C24_ChunkLifecycle ==
  /\ [](\A i \in 1..Len(documents) :
          /\ JsonLoads(documents[i].chunks) = ProducedFor(documents[i].id)
          /\ (op = "query" /\ user_role = "admin") => AllReturned(documents[i]))
  /\ [][/\ op' = "query" => documents' = documents
        /\ \A i \in 1..Len(documents) :
             IF documents[i].id \in IdsOf(documents')
             THEN \E j \in 1..Len(documents') : documents'[j] = documents[i]
             ELSE /\ op' = "delete"
                  /\ deleted' = <<documents[i].id, "admin", TRUE>>]_vars

C24_Witness ==
  /\ op = "query"
  /\ user_role = "admin"
  /\ uuid_count = 2
  /\ Len(documents) = 1
  /\ documents[1].id = Uuid(1)
  /\ Len(ProducedFor(Uuid(1))) = 2
  /\ Len(rank_chunks) = 2
  /\ rank_chunks[2].filename = "two.txt"
  /\ relevant # <<>>

\* C25: after any sequence of uploads and deletes, the chunks gathered for a
\* requester who is no admin come exactly from the documents whose
\* owner_role is "admin" or whose owner_id is the requester's user_id, each
\* chunk carrying its own document's filename, country and doc_type; no
\* chunk of another non-admin user's document is gathered, and an admin
\* gets the chunks of all documents.
C25_AccessControl ==
  op = "query" =>
    /\ \A p \in 1..Len(rank_chunks) :
         \E i \in 1..Len(documents) :
           /\ documents[i].id = rank_chunks[p].doc_id
           /\ \E k \in 1..Len(ProducedFor(documents[i].id)) :
                IsCopyWithMeta(rank_chunks[p],
                               ProducedFor(documents[i].id)[k], documents[i])
           /\ \/ user_role = "admin"
              \/ documents[i].owner_role = "admin"
              \/ documents[i].owner_id = user_id
    /\ \A i \in 1..Len(documents) :
         (\/ user_role = "admin"
          \/ documents[i].owner_role = "admin"
          \/ documents[i].owner_id = user_id) => AllReturned(documents[i])

C25_Witness ==
  /\ op = "query"
  /\ user_id = "u1"
  /\ user_role = "user"
  /\ Len(documents) = 2
  /\ documents[1].owner_id = "guest"
  /\ documents[1].owner_role = "user"
  /\ documents[2].owner_role = "admin"
  /\ rank_chunks # <<>>
  /\ \A p \in 1..Len(rank_chunks) : rank_chunks[p].doc_id = documents[2].id

\* the row of table documents with the given id is owned by an admin
AdminOwned(did) ==
  \E i \in 1..Len(documents) :
    documents[i].id = did /\ documents[i].owner_role = "admin"

\* C26: in guest mode, after any sequence of uploads by guests, users and
\* admins, the documents listed and the chunks passed to
\* find_relevant_chunks come only from admin-owned documents.
C26_GuestSeesAdminOnly ==
  user_role = "guest" =>
    /\ op = "list" => \A i \in 1..Len(listed) : listed[i].owner_role = "admin"
    /\ op = "query" =>
         \A p \in 1..Len(rank_chunks) : AdminOwned(rank_chunks[p].doc_id)

\* C27: delete_document called with a user_role other than "admin" returns
\* False and leaves the table unchanged, also when the caller owns the
\* document; called with role "admin" it removes exactly the row with the
\* given id, leaves every other row unchanged and in place, and returns True
\* if and only if a row with that id existed.
C27_DeleteAdminOnly ==
  [][op' = "delete" =>
       /\ deleted'[2] = user_role'
       /\ user_role' # "admin" =>
            /\ deleted'[3] = FALSE
            /\ documents' = documents
       /\ user_role' = "admin" =>
            /\ deleted'[3] = (deleted'[1] \in IdsOf(documents))
            /\ deleted'[1] \notin IdsOf(documents')
            /\ \A i \in 1..Len(documents) :
                 documents[i].id # deleted'[1] =>
                   \E j \in 1..Len(documents') : documents'[j] = documents[i]
            /\ \A j \in 1..Len(documents') :
                 \E i \in 1..Len(documents) : documents[i] = documents'[j]]_vars

C27_Witness ==
  /\ op = "delete"
  /\ user_role = "user"
  /\ user_id = "u1"
  /\ deleted = <<Uuid(1), "user", FALSE>>
  /\ Len(documents) = 1
  /\ documents[1].id = Uuid(1)
  /\ documents[1].owner_id = "u1"

----------------------------------------------------------------------------
(* Properties of get_answer_from_chunks, checked under QaSpec              *)

\* C28: a refused first attempt is retried once with an empty chunk list,
\* and the retry without document context is not itself retried: the model
\* is asked at most twice in one invocation, the second time with no chunks.
C28_RetriedOnce ==
  /\ Len(answers) <= 2
  /\ attempt <= 2
  /\ attempt = 2 => qa_chunks = <<>>

====
